---- MODULE Spec2Model ----
\* A11ycheck backend: the auth routes (routes/auth.js), the User schema, the
\* startup of index.js, its scan, statistics, activity and mail routes
\* (app.get, app.post, app.delete), the scan routes of routes/scan.js
\* (router.get, router.post), and the two Scan schemas.  Both sets of scan
\* routes work on the same `scans` collection.
\*
\* Strings that the code folds, trims or measures are sequences of
\* one-character strings, so that toLowerCase, trim and length are computed.
\* undefined and '' take the same branch of every `!x` test of the code and
\* are both written <<>>.
EXTENDS Integers, Sequences, FiniteSets, Bags, TLC

VARIABLES users, signups, registered, scans, created, now, resp, calc, smtp

vars == <<users, signups, registered, scans, created, now, resp, calc, smtp>>

(* ------------------------------ bounds --------------------------------- *)
MaxInflight == 2
MaxTime == 1
MaxScans == 2
MaxErrors == 20
MaxMinor == 2

(* --------------------------- program constants ------------------------- *)
UsernameMinLength == 3
UsernameMaxLength == 20
TokenTTL == 1
ErrorWeight == 10
WarningWeight == 5
NoticeWeight == 2
MaxPenalty == 95

(* ------------------------------ strings -------------------------------- *)
toLowerCase(c) ==
  CASE c = "A" -> "a"
    [] c = "B" -> "b"
    [] c = "L" -> "l"
    [] c = "M" -> "m"
    [] c = "O" -> "o"
    [] c = "X" -> "x"
    [] c = "Y" -> "y"
    [] OTHER -> c

Lower(s) == [i \in DOMAIN s |-> toLowerCase(s[i])]

RECURSIVE TrimLeft(_)
TrimLeft(s) == IF s # <<>> /\ Head(s) = " " THEN TrimLeft(Tail(s)) ELSE s

RECURSIVE TrimRight(_)
TrimRight(s) ==
  IF s # <<>> /\ s[Len(s)] = " " THEN TrimRight(SubSeq(s, 1, Len(s) - 1)) ELSE s

Trim(s) == TrimRight(TrimLeft(s))

Falsy(s) == s = <<>>

(* ------------------------------ User schema ---------------------------- *)
\* the setters of a path with lowercase: true, trim: true; Mongoose runs them
\* on document construction and on the conditions of a query alike
FoldSetter(s) == Lower(Trim(s))

TrimSetter(s) == Trim(s)

\* required on a String path rejects the empty string
RequiredOk(s) == s # <<>>

\* variant: the minimum length is taken one too long
UsernameValidLonger(u) ==
  /\ RequiredOk(u)
  /\ Len(u) >= UsernameMinLength + 1
  /\ Len(u) <= UsernameMaxLength

UsernameValid(u) ==
  /\ RequiredOk(u)
  /\ Len(u) >= UsernameMinLength
  /\ Len(u) <= UsernameMaxLength

\* new User({...}): the document after the setters ran
NewUser(id, body, hashed) ==
  [ _id |-> id,
    username |-> FoldSetter(body.username),
    name |-> TrimSetter(body.name),
    email |-> FoldSetter(body.email),
    password |-> hashed,
    bio |-> <<>>,
    profilePhoto |-> <<>> ]

\* the validators save() runs on a new User
UserValid(doc) ==
  /\ UsernameValid(doc.username)
  /\ RequiredOk(doc.name)
  /\ RequiredOk(doc.email)
  /\ doc.password.of # <<>>

\* variant: no unique index stands behind the schema
UniqueOkWithoutIndex(doc, store) == TRUE

\* the unique indexes on username and email
UniqueOk(doc, store) ==
  \A u \in store : u.username # doc.username /\ u.email # doc.email

\* variant: the condition is compared as it was sent
FindByUsernameExact(store, username) ==
  {u \in store : u.username = username}

FindByUsername(store, username) ==
  {u \in store : u.username = FoldSetter(username)}

FindByEmail(store, email) ==
  {u \in store : u.email = FoldSetter(email)}

FindUserById(store, id) == {u \in store : u._id = id}

UserIds(store) == {u._id : u \in store}

(* ------------------------------ bcrypt / jwt --------------------------- *)
BcryptHash(password) == [alg |-> "bcrypt", of |-> password]

BcryptCompare(password, hashed) == hashed.of = password

NoToken == [kind |-> "none", sig |-> "none", userId |-> 0, exp |-> 0]

GarbageToken == [kind |-> "garbage", sig |-> "none", userId |-> 0, exp |-> 0]

JwtSign(userId, t) ==
  [kind |-> "jwt", sig |-> "secret", userId |-> userId, exp |-> t + TokenTTL]

\* jwt.verify(token, secret, cb): err unless a well-formed, unexpired token
\* signed with the secret
JwtVerifyOk(token, t) ==
  /\ token.kind = "jwt"
  /\ token.sig = "secret"
  /\ t < token.exp

NoHeader == [present |-> FALSE, token |-> NoToken]

BearerOnly == [present |-> TRUE, token |-> NoToken]

Bearer(token) == [present |-> TRUE, token |-> token]

\* authHeader && authHeader.split(' ')[1]
HeaderToken(header) == IF header.present THEN header.token ELSE NoToken

\* variant: the token is decoded, its signature and expiry are not checked
authenticateTokenUnverified(header, t) ==
  LET token == HeaderToken(header) IN
  IF token.kind = "none" THEN [status |-> 401, user |-> 0]
  ELSE IF token.kind # "jwt" THEN [status |-> 403, user |-> 0]
  ELSE [status |-> 200, user |-> token.userId]

\* the gate: 401 without a token, 403 when verify fails, else req.user
authenticateToken(header, t) ==
  LET token == HeaderToken(header) IN
  IF token.kind = "none" THEN [status |-> 401, user |-> 0]
  ELSE IF ~JwtVerifyOk(token, t) THEN [status |-> 403, user |-> 0]
  ELSE [status |-> 200, user |-> token.userId]

\* bearer tokens a client can hold at time t: every signed token was issued
\* by a login of a stored user at some time up to t; anything else is unsigned
SignedTokens(store, t) ==
  {JwtSign(id, iat) : id \in UserIds(store), iat \in 0..t}

ForgedToken ==
  [kind |-> "jwt", sig |-> "forged", userId |-> 1, exp |-> MaxTime + TokenTTL + 1]

Headers(store, t) ==
  {NoHeader, BearerOnly, Bearer(GarbageToken), Bearer(ForgedToken)}
    \cup {Bearer(tok) : tok \in SignedTokens(store, t)}

(* ------------------------------ signup inputs -------------------------- *)
bob == <<"b", "o", "b">>
Bob == <<"B", "o", "b">>
amy == <<"a", "m", "y">>
al == <<"a", "l">>
TooLong == [i \in 1..(UsernameMaxLength + 1) |-> "x"]
Blank == <<" ">>
bx == <<"b", "@", "x">>
BX == <<"B", "@", "X">>
ax == <<"a", "@", "x">>
mx == <<"m", "@", "x">>
lx == <<"l", "@", "x">>

Body(username, name, email, password) ==
  [username |-> username, name |-> name, email |-> email, password |-> password]

NoBody == Body(<<>>, <<>>, <<>>, <<>>)

SignupBodies ==
  { Body(bob, <<"N">>, bx, <<"p">>),
    Body(Bob, <<"N">>, mx, <<"q">>),
    Body(amy, <<"N">>, BX, <<"p">>),
    Body(amy, <<"N">>, ax, <<"q">>),
    Body(al, <<"N">>, lx, <<"p">>),
    Body(TooLong, <<"N">>, lx, <<"p">>),
    Body(amy, Blank, ax, <<"q">>),
    Body(bob, <<"N">>, bx, <<>>) }

\* req.body of /login: the credentials of the signups that can be stored
\* (each the wrong password for a user stored by another), and a missing
\* password
LoginBodies ==
  { [username |-> bob, password |-> <<"p">>],
    [username |-> Bob, password |-> <<"q">>],
    [username |-> amy, password |-> <<"q">>],
    [username |-> amy, password |-> <<"p">>],
    [username |-> bob, password |-> <<>>] }

(* ------------------------------ responses ------------------------------ *)
NoResp == [route |-> "none", status |-> 0]

SignupResp(body, status, msg) ==
  [route |-> "signup", body |-> body, status |-> status, error |-> msg]

LoginResp(body, status, msg, token) ==
  [route |-> "login", body |-> body, status |-> status, error |-> msg,
   token |-> token]

(* ------------------------------ POST /signup --------------------------- *)
\* signups: the bag of signup requests in flight, each at the await it is
\* suspended on, with the number of users stored when it arrived
Inflight(pc, body, seen) == [pc |-> pc, body |-> body, seen |-> seen]

Resume(r, next) == (signups (-) SetToBag({r})) (+) SetToBag({next})

Finish(r) == signups (-) SetToBag({r})

ScanFrame == UNCHANGED <<scans, created, now, calc, smtp>>

\* destructure the body, reject a missing field, else await User.findOne({username})
SignupBegin(body) ==
  /\ BagCardinality(signups) < MaxInflight
  /\ IF Falsy(body.username) \/ Falsy(body.name) \/ Falsy(body.email)
          \/ Falsy(body.password)
     THEN /\ resp' = SignupResp(body, 400,
                       "Username, name, email, and password are required")
          /\ UNCHANGED signups
     ELSE /\ signups' = signups (+)
                          SetToBag({Inflight("findUsername", body, Cardinality(users))})
          /\ UNCHANGED resp
  /\ UNCHANGED <<users, registered>>
  /\ ScanFrame

\* User.findOne({ username }) resolved
SignupFindUsername(r) ==
  /\ BagIn(r, signups)
  /\ r.pc = "findUsername"
  /\ IF FindByUsername(users, r.body.username) # {}
     THEN /\ resp' = SignupResp(r.body, 400, "Username already exists")
          /\ signups' = Finish(r)
     ELSE /\ signups' = Resume(r, [r EXCEPT !.pc = "findEmail"])
          /\ UNCHANGED resp
  /\ UNCHANGED <<users, registered>>
  /\ ScanFrame

\* User.findOne({ email }) resolved
SignupFindEmail(r) ==
  /\ BagIn(r, signups)
  /\ r.pc = "findEmail"
  /\ IF FindByEmail(users, r.body.email) # {}
     THEN /\ resp' = SignupResp(r.body, 400, "Email already exists")
          /\ signups' = Finish(r)
     ELSE /\ signups' = Resume(r, [r EXCEPT !.pc = "save"])
          /\ UNCHANGED resp
  /\ UNCHANGED <<users, registered>>
  /\ ScanFrame

\* bcrypt.hash resolved; new User(...).save(): a validation error or a
\* duplicate key is thrown into the catch block
SignupSave(r) ==
  /\ BagIn(r, signups)
  /\ r.pc = "save"
  /\ LET doc == NewUser(Cardinality(users) + 1, r.body, BcryptHash(r.body.password))
     IN IF UserValid(doc) /\ UniqueOk(doc, users)
        THEN /\ users' = users \cup {doc}
             /\ registered' = registered \cup {[id |-> doc._id, body |-> r.body]}
             /\ resp' = SignupResp(r.body, 201, "User registered successfully")
        ELSE /\ resp' = SignupResp(r.body, 500, "Server error")
             /\ UNCHANGED <<users, registered>>
  /\ signups' = Finish(r)
  /\ ScanFrame

(* ------------------------------ POST /login ---------------------------- *)
Login(body) ==
  /\ LET found == FindByUsername(users, body.username) IN
     IF Falsy(body.username) \/ Falsy(body.password)
     THEN resp' = LoginResp(body, 400, "Username and password are required", NoToken)
     ELSE IF found = {}
     THEN resp' = LoginResp(body, 404, "User not found", NoToken)
     ELSE LET user == CHOOSE u \in found : TRUE IN
          IF ~BcryptCompare(body.password, user.password)
          THEN resp' = LoginResp(body, 401, "Invalid credentials", NoToken)
          ELSE resp' = LoginResp(body, 200, "Login successful",
                                 JwtSign(user._id, now))
  /\ UNCHANGED <<users, signups, registered>>
  /\ ScanFrame

(* ------------------------------ auth service --------------------------- *)
InitAuth ==
  /\ users = {}
  /\ signups = EmptyBag
  /\ registered = {}
  /\ scans = {}
  /\ created = 0
  /\ now = 0
  /\ resp = NoResp
  /\ calc = <<>>
  /\ smtp = FALSE

NextAuth ==
  \/ \E body \in SignupBodies : SignupBegin(body)
  \/ \E r \in BagToSet(signups) : SignupFindUsername(r)
  \/ \E r \in BagToSet(signups) : SignupFindEmail(r)
  \/ \E r \in BagToSet(signups) : SignupSave(r)
  \/ \E body \in LoginBodies : Login(body)

SpecAuth == InitAuth /\ [][NextAuth]_vars

(* ------------------------------ scan inputs ---------------------------- *)
Max(a, b) == IF a >= b THEN a ELSE b

Min(a, b) == IF a <= b THEN a ELSE b

\* req.body.url: a JSON value; a string is written by the parts of it that
\* the URL parser looks at (its scheme and its host)
UrlUndefined == [type |-> "undefined", scheme |-> "", host |-> ""]
UrlEmpty == [type |-> "string", scheme |-> "", host |-> ""]
UrlRelative == [type |-> "string", scheme |-> "", host |-> "example.com"]
UrlNoHost == [type |-> "string", scheme |-> "https", host |-> ""]
UrlNumber == [type |-> "number", scheme |-> "", host |-> ""]
UrlGood == [type |-> "string", scheme |-> "https", host |-> "example.com"]

Urls == {UrlUndefined, UrlEmpty, UrlRelative, UrlNoHost, UrlNumber, UrlGood}

\* !url
UrlFalsy(url) == url = UrlUndefined \/ url = UrlEmpty

\* variant: a scheme is all the parser asks for
URLThrowsWithoutScheme(url) == url.scheme = ""

\* new URL(url) throws: the argument is converted to a string, which must
\* have a scheme and, for https, a host
URLThrows(url) == url.scheme = "" \/ url.host = ""

\* what pa11y(url, options) resolves to or rejects with; an issue is written
\* by its type ("" when the scanner gave none)
Resolved(types) == [ok |-> TRUE, types |-> types, message |-> ""]

Rejected(message) == [ok |-> FALSE, types |-> <<>>, message |-> message]

NotCalled == [ok |-> FALSE, types |-> <<>>, message |-> "not called"]

ScannerOutcomes ==
  { Resolved(<<>>),
    Resolved(<<"error", "notice">>),
    Resolved(<<"", "info">>),
    Rejected("timeout"),
    Rejected("net::ERR_NAME_NOT_RESOLVED"),
    Rejected("crash") }

Severities == {"error", "warning", "notice"}

\* req.params.id: an id is a 24-digit hex string or it is not
ObjectId(n) == [hex24 |-> TRUE, value |-> n]

MalformedId == [hex24 |-> FALSE, value |-> 0]

IdParams == {ObjectId(n) : n \in 1..MaxScans} \cup {MalformedId}

(* ------------------------------ scoring -------------------------------- *)
CountSeverity(issueDetails, sev) ==
  Cardinality({i \in DOMAIN issueDetails : issueDetails[i].severity = sev})

\* Math.round(h / 2) for an integer h >= 0: halves round up
MathRoundHalves(h) == (h + 1) \div 2

\* index.js: Math.max(0, Math.round(100 - Math.min(95, totalWeight * 0.5)))
Score(errorIssues, warningIssues, noticeIssues) ==
  LET totalWeight == errorIssues * ErrorWeight + warningIssues * WarningWeight
                       + noticeIssues * NoticeWeight
  IN Max(0, MathRoundHalves(2 * 100 - Min(2 * MaxPenalty, totalWeight)))

\* variant: the floor at 0 is forgotten
RouterScoreNoFloor(errorCount, warningCount, noticeCount) ==
  100 - errorCount * ErrorWeight - warningCount * WarningWeight
    - noticeCount * NoticeWeight

\* routes/scan.js: 100 less 10, 5 and 2 per issue, not below 0
RouterScore(errorCount, warningCount, noticeCount) ==
  Max(0, 100 - errorCount * ErrorWeight - warningCount * WarningWeight
           - noticeCount * NoticeWeight)

(* ------------------------------ Scan documents ------------------------- *)
\* index.js processedIssues: severity: String(issue.type || 'warning')
ProcessedIssues(types) ==
  [i \in DOMAIN types |->
     [id |-> i, severity |-> IF types[i] = "" THEN "warning" ELSE types[i]]]

\* variant: the notices are left out of the list
RouterProcessedIssuesWithoutNotices(types) ==
  LET kept == SelectSeq(types, LAMBDA t : t # "notice")
  IN [i \in DOMAIN kept |-> [id |-> i, severity |-> kept[i]]]

\* routes/scan.js processedIssues: severity: issue.type
RouterProcessedIssues(types) ==
  [i \in DOMAIN types |-> [id |-> i, severity |-> types[i]]]

\* a Scan document.  scanDuration, pageTitle and pageDescription are written
\* once and read by no handler's condition; they are left out, and with them
\* the best-effort fetch of the page's title in routes/scan.js
ScanDoc(id, userId, issues, issueDetails, score, status, t) ==
  [ _id |-> id, userId |-> userId, url |-> UrlGood, issues |-> issues,
    issueDetails |-> issueDetails, score |-> score, status |-> status,
    timestamp |-> t ]

\* the validators of models/Scan.js that a processed issue list or a score
\* can fail: severity in the enum, score within 0..100
RouterScanValid(doc) ==
  /\ \A i \in DOMAIN doc.issueDetails : doc.issueDetails[i].severity \in Severities
  /\ doc.score >= 0
  /\ doc.score <= 100

FindScan(store, id) == {d \in store : id.hex24 /\ d._id = id.value}

FindScanOwned(store, id, userId) ==
  {d \in FindScan(store, id) : d.userId = userId}

\* variant: nothing is deselected
SelectEverything(doc) == doc

\* .select('-issueDetails')
SelectWithoutIssueDetails(doc) ==
  [f \in DOMAIN doc \ {"issueDetails"} |-> doc[f]]

\* .sort({ timestamp: -1 }); documents of one timestamp in insertion order
SortsBefore(a, b) ==
  a.timestamp > b.timestamp \/ (a.timestamp = b.timestamp /\ a._id < b._id)

RECURSIVE SortByTimestampDesc(_)
SortByTimestampDesc(docs) ==
  IF docs = {} THEN <<>>
  ELSE LET first == CHOOSE a \in docs : \A b \in docs \ {a} : SortsBefore(a, b)
       IN <<first>> \o SortByTimestampDesc(docs \ {first})

\* .skip(skip).limit(limit)
SkipLimit(seq, skip, limit) ==
  SubSeq(seq, skip + 1, Min(Len(seq), skip + limit))

CeilDiv(a, b) == (a + b - 1) \div b

(* ------------------------------ scan responses ------------------------- *)
\* a response of a route behind the gate: the request (route, header,
\* params), req.user.id as the gate attached it (0: none), the status and
\* JSON body sent, and what the scanner did if the handler called it
Resp(route, header, user, params, status, body, scanner) ==
  [route |-> route, header |-> header, user |-> user, params |-> params,
   status |-> status, body |-> body, scanner |-> scanner]

GateBody(status) ==
  IF status = 401 THEN [error |-> "Access token required"]
  ELSE [error |-> "Invalid token"]

\* authenticateToken answering in place of the handler
GateRejects(route, header) ==
  LET auth == authenticateToken(header, now) IN
  /\ auth.status # 200
  /\ resp' = Resp(route, header, 0, <<>>, auth.status, GateBody(auth.status), NotCalled)
  /\ UNCHANGED <<users, signups, registered, scans, created, now, calc, smtp>>

GatePasses(header) == authenticateToken(header, now).status = 200

ReqUser(header) == authenticateToken(header, now).user

AuthFrame == UNCHANGED <<users, signups, registered, now, calc, smtp>>

(* ------------------------------ POST /scan (index.js) ------------------ *)
\* what the try/catch of the handler does after validation, in the order
\* the code does it: the scanner call, each write that succeeded, each
\* response sent.  saveOk: nothing between the scanner's result and the end
\* of scan.save() threw; failedSaveOk: failedScan.save() did not throw
Effect(do, what) == [do |-> do, what |-> what]

\* variant: the write of the failed record is not in a try of its own
PostScanEffectsUnguardedWrite(outcome, saveOk, failedSaveOk) ==
  <<Effect("pa11y", IF outcome.ok THEN "resolved" ELSE "rejected")>>
    \o (IF outcome.ok /\ saveOk
        THEN <<Effect("save", "completed"), Effect("respond", "200")>>
        ELSE IF failedSaveOk
        THEN <<Effect("save", "failed"), Effect("respond", "500")>>
        ELSE <<>>)

PostScanEffects(outcome, saveOk, failedSaveOk) ==
  <<Effect("pa11y", IF outcome.ok THEN "resolved" ELSE "rejected")>>
    \o (IF outcome.ok /\ saveOk
        THEN <<Effect("save", "completed"), Effect("respond", "200")>>
        ELSE \* catch (error): try { failedScan.save() } catch { log }, respond
             (IF failedSaveOk THEN <<Effect("save", "failed")>> ELSE <<>>)
               \o <<Effect("respond", "500")>>)

Did(effects, do, what) == \E i \in DOMAIN effects : effects[i] = Effect(do, what)

PostScanRun(header, url, outcome, saveOk, failedSaveOk) ==
  LET user == ReqUser(header)
      params == [url |-> url]
      processedIssues == ProcessedIssues(outcome.types)
      score == Score(CountSeverity(processedIssues, "error"),
                     CountSeverity(processedIssues, "warning"),
                     CountSeverity(processedIssues, "notice"))
      scan == ScanDoc(created + 1, user, Len(processedIssues), processedIssues,
                      score, "completed", now)
      failedScan == ScanDoc(created + 1, user, 0, <<>>, 0, "failed", now)
      effects == PostScanEffects(outcome, saveOk, failedSaveOk)
      saved == (IF Did(effects, "save", "completed") THEN {scan} ELSE {})
                 \cup (IF Did(effects, "save", "failed") THEN {failedScan} ELSE {})
  IN
  /\ scans' = scans \cup saved
  /\ created' = created + Cardinality(saved)
  /\ resp' =
       (IF Did(effects, "respond", "200")
        THEN Resp("POST /scan", header, user, params, 200,
                  [ _id |-> scan._id, id |-> scan._id, url |-> scan.url,
                    issues |-> Len(processedIssues),
                    issueDetails |-> processedIssues, score |-> scan.score,
                    status |-> scan.status, timestamp |-> scan.timestamp ],
                  outcome)
        ELSE IF Did(effects, "respond", "500")
        THEN Resp("POST /scan", header, user, params, 500,
                  [error |-> "Failed to scan website. Please check the URL and try again.",
                   details |-> "Scan failed"],
                  outcome)
        ELSE \* no response is sent
             Resp("POST /scan", header, user, params, 0, <<>>, outcome))
         @@ [effects |-> effects]

\* the handler behind the gate: validation, then the scan with what the
\* scanner and the two writes do (a write that cannot matter is not drawn)
PostScanHandler(header, url) ==
  LET user == ReqUser(header)
      params == [url |-> url]
  IN
  IF UrlFalsy(url) \/ url.type # "string"
  THEN /\ resp' = Resp("POST /scan", header, user, params, 400,
                       [error |-> "A valid URL is required."], NotCalled)
                    @@ [effects |-> <<Effect("respond", "400")>>]
       /\ UNCHANGED <<scans, created>>
  ELSE IF URLThrows(url)
  THEN /\ resp' = Resp("POST /scan", header, user, params, 400,
                       [error |-> "Invalid URL format. Please include http:// or https://"],
                       NotCalled)
                    @@ [effects |-> <<Effect("respond", "400")>>]
       /\ UNCHANGED <<scans, created>>
  ELSE \E outcome \in ScannerOutcomes :
         \/ outcome.ok /\ PostScanRun(header, url, outcome, TRUE, TRUE)
         \/ \E failedSaveOk \in BOOLEAN :
              PostScanRun(header, url, outcome, FALSE, failedSaveOk)

PostScan(header, url) ==
  /\ created < MaxScans
  /\ \/ GateRejects("POST /scan", header)
     \/ /\ GatePasses(header)
        /\ PostScanHandler(header, url)
        /\ AuthFrame

(* ------------------------------ POST / (routes/scan.js) ---------------- *)
RouterErrorResponse(message) ==
  IF message = "timeout"
  THEN [status |-> 408,
        body |-> [success |-> FALSE,
                  error |-> "Scan timeout - website took too long to respond"]]
  ELSE IF message = "net::ERR_NAME_NOT_RESOLVED"
  THEN [status |-> 400,
        body |-> [success |-> FALSE, error |-> "Website not found - check the URL"]]
  ELSE [status |-> 500,
        body |-> [success |-> FALSE, error |-> "Scan failed - please try again"]]

RouterPostScanRun(header, url, outcome, saveOk) ==
  LET user == ReqUser(header)
      params == [url |-> url]
      processedIssues == RouterProcessedIssues(outcome.types)
      score == RouterScore(CountSeverity(processedIssues, "error"),
                           CountSeverity(processedIssues, "warning"),
                           CountSeverity(processedIssues, "notice"))
      \* issues: results.issues.length, issueDetails: processedIssues
      scan == ScanDoc(created + 1, user, Len(outcome.types), processedIssues,
                      score, "completed", now)
      thrown == IF ~outcome.ok THEN outcome.message ELSE "Scan validation failed"
      failure == RouterErrorResponse(thrown)
  IN
  IF outcome.ok /\ RouterScanValid(scan) /\ saveOk
  THEN /\ scans' = scans \cup {scan}
       /\ created' = created + 1
       /\ resp' = Resp("router POST /", header, user, params, 200,
                       [ success |-> TRUE, scanId |-> scan._id,
                         message |-> "Scan completed successfully",
                         data |-> [ id |-> scan._id, url |-> scan.url,
                                    issues |-> scan.issues, score |-> scan.score,
                                    status |-> scan.status,
                                    timestamp |-> scan.timestamp,
                                    issueDetails |-> scan.issueDetails ] ],
                       outcome)
  ELSE \* catch (error): an error response and nothing else
       /\ resp' = Resp("router POST /", header, user, params, failure.status,
                       failure.body, outcome)
       /\ UNCHANGED <<scans, created>>

RouterPostScanHandler(header, url) ==
  LET user == ReqUser(header)
      params == [url |-> url]
  IN
  IF UrlFalsy(url)
  THEN /\ resp' = Resp("router POST /", header, user, params, 400,
                       [success |-> FALSE, error |-> "URL is required"], NotCalled)
       /\ UNCHANGED <<scans, created>>
  ELSE IF URLThrows(url)
  THEN /\ resp' = Resp("router POST /", header, user, params, 400,
                       [success |-> FALSE, error |-> "Invalid URL format"], NotCalled)
       /\ UNCHANGED <<scans, created>>
  ELSE \E outcome \in ScannerOutcomes :
         IF outcome.ok
         THEN \E saveOk \in BOOLEAN : RouterPostScanRun(header, url, outcome, saveOk)
         ELSE RouterPostScanRun(header, url, outcome, TRUE)

RouterPostScan(header, url) ==
  /\ created < MaxScans
  /\ \/ GateRejects("router POST /", header)
     \/ /\ GatePasses(header)
        /\ RouterPostScanHandler(header, url)
        /\ AuthFrame

(* ------------------------------ GET /scan/:id (index.js) --------------- *)
GetScanById(header, id) ==
  \/ GateRejects("GET /scan/:id", header)
  \/ /\ GatePasses(header)
     /\ LET user == ReqUser(header)
            found == FindScanOwned(scans, id, user)
        IN resp' =
             IF ~id.hex24  \* the query's cast of _id throws
             THEN Resp("GET /scan/:id", header, user, [id |-> id], 500,
                       [error |-> "Failed to fetch scan details."], NotCalled)
             ELSE IF found = {}
             THEN Resp("GET /scan/:id", header, user, [id |-> id], 404,
                       [error |-> "Scan not found"], NotCalled)
             ELSE Resp("GET /scan/:id", header, user, [id |-> id], 200,
                       CHOOSE d \in found : TRUE, NotCalled)
     /\ UNCHANGED <<scans, created>>
     /\ AuthFrame

(* ------------------------------ GET /:id (routes/scan.js) -------------- *)
RouterScanBody(scan) ==
  [ id |-> scan._id, url |-> scan.url, issues |-> scan.issues,
    score |-> scan.score, status |-> scan.status, timestamp |-> scan.timestamp,
    issueDetails |-> scan.issueDetails ]

RouterGetScanById(header, id) ==
  \/ GateRejects("router GET /:id", header)
  \/ /\ GatePasses(header)
     /\ LET user == ReqUser(header)
            found == FindScan(scans, id)
            scan == CHOOSE d \in found : TRUE
        IN resp' =
             IF ~id.hex24
             THEN Resp("router GET /:id", header, user, [id |-> id], 400,
                       [success |-> FALSE, error |-> "Invalid scan ID format"], NotCalled)
             ELSE IF found = {}
             THEN Resp("router GET /:id", header, user, [id |-> id], 404,
                       [success |-> FALSE, error |-> "Scan not found"], NotCalled)
             ELSE IF scan.userId # user
             THEN Resp("router GET /:id", header, user, [id |-> id], 403,
                       [success |-> FALSE, error |-> "Access denied - not your scan"],
                       NotCalled)
             ELSE Resp("router GET /:id", header, user, [id |-> id], 200,
                       RouterScanBody(scan), NotCalled)
     /\ UNCHANGED <<scans, created>>
     /\ AuthFrame

(* ------------------------------ GET /scans (index.js) ------------------ *)
\* req.query of GET /scans, and of the router's GET /
ListQueries ==
  { [page |-> 1, limit |-> 50, days |-> 30],
    [page |-> 2, limit |-> 1, days |-> 30],
    [page |-> 1, limit |-> 1, days |-> 1] }

RouterListQueries == { [page |-> 1, limit |-> 10], [page |-> 2, limit |-> 1] }

\* timestamp: { $gte: startDate }, startDate being `days` days before the
\* instant of the query.  The clock counts days; a document saved on day d
\* was saved before the instant of any later query, so that on day t it is
\* at least `days` days old exactly when t - d >= days
Since(doc, t, days) == doc.timestamp > t - days

\* Scan.find({ userId, timestamp: { $gte: startDate } })
FindScansSince(store, userId, t, days) ==
  {d \in store : d.userId = userId /\ Since(d, t, days)}

\* Scan.find({ userId })
FindScansOf(store, userId) == {d \in store : d.userId = userId}

\* the documents of a page, newest first, without their issue details
ListPage(docs, page, limit) ==
  LET sorted == SortByTimestampDesc(docs)
      paged == SkipLimit(sorted, (page - 1) * limit, limit)
  IN [i \in DOMAIN paged |-> SelectWithoutIssueDetails(paged[i])]

\* the JSON of GET /scans, read from `store`
ScansBody(store, user, t, query) ==
  LET matching == FindScansSince(store, user, t, query.days)
      list == ListPage(matching, query.page, query.limit)
      total == Cardinality(matching)
  IN [ scans |-> list,
       pagination |-> [ current |-> query.page,
                        total |-> CeilDiv(total, query.limit),
                        count |-> Len(list),
                        totalScans |-> total ] ]

GetScans(header, query) ==
  \/ GateRejects("GET /scans", header)
  \/ /\ GatePasses(header)
     /\ resp' = Resp("GET /scans", header, ReqUser(header), query, 200,
                     ScansBody(scans, ReqUser(header), now, query), NotCalled)
     /\ UNCHANGED <<scans, created>>
     /\ AuthFrame

(* ------------------------------ GET / (routes/scan.js) ----------------- *)
\* the JSON of the router's GET /, read from `store`
RouterScansBody(store, user, query) ==
  LET matching == FindScansOf(store, user)
      total == Cardinality(matching)
  IN [ success |-> TRUE,
       scans |-> ListPage(matching, query.page, query.limit),
       pagination |-> [ page |-> query.page, limit |-> query.limit,
                        total |-> total,
                        pages |-> CeilDiv(total, query.limit) ] ]

RouterGetScans(header, query) ==
  \/ GateRejects("router GET /", header)
  \/ /\ GatePasses(header)
     /\ resp' = Resp("router GET /", header, ReqUser(header), query, 200,
                     RouterScansBody(scans, ReqUser(header), query), NotCalled)
     /\ UNCHANGED <<scans, created>>
     /\ AuthFrame

(* ------------------------------ GET /stats, GET /activity -------------- *)
\* req.query.days
StatsQueries == {[days |-> 30], [days |-> 1]}

RECURSIVE SumOf(_, _)
SumOf(docs, field) ==
  IF docs = {} THEN 0
  ELSE LET d == CHOOSE x \in docs : TRUE IN d[field] + SumOf(docs \ {d}, field)

\* { $round: [num / den, 1] } in tenths; $round takes a tie to the even digit
RoundedTenths(num, den) ==
  LET q == (10 * num) \div den
      r == (10 * num) % den
  IN IF 2 * r < den THEN q
     ELSE IF 2 * r > den THEN q + 1
     ELSE IF q % 2 = 0 THEN q ELSE q + 1

\* variant: the $match stage has no userId
MatchStageAnyUser(store, userId, t, days) ==
  {d \in store : Since(d, t, days)}

\* $match: { userId, timestamp: { $gte: startDate } }
MatchStage(store, userId, t, days) ==
  {d \in store : d.userId = userId /\ Since(d, t, days)}

\* the $group and $project stages of /stats over the matched documents
GroupStats(docs) ==
  [ totalScans |-> Cardinality(docs),
    totalIssues |-> SumOf(docs, "issues"),
    avgScoreTenths |-> RoundedTenths(SumOf(docs, "score"), Cardinality(docs)),
    uniquePages |-> Cardinality({d.url : d \in docs}) ]

\* stats[0] || { totalScans: 0, ... }
StatsBody(store, userId, t, days) ==
  LET docs == MatchStage(store, userId, t, days) IN
  IF docs = {}
  THEN [totalScans |-> 0, totalIssues |-> 0, avgScoreTenths |-> 0, uniquePages |-> 0]
  ELSE GroupStats(docs)

GetStats(header, query) ==
  \/ GateRejects("GET /stats", header)
  \/ /\ GatePasses(header)
     /\ resp' = Resp("GET /stats", header, ReqUser(header), query, 200,
                     StatsBody(scans, ReqUser(header), now, query.days), NotCalled)
     /\ UNCHANGED <<scans, created>>
     /\ AuthFrame

\* the $group by day, $sort by day and $project stages of /activity; a
\* document's day is its timestamp
RECURSIVE ActivityRows(_, _)
ActivityRows(docs, days) ==
  IF days = {} THEN <<>>
  ELSE LET day == CHOOSE a \in days : \A b \in days : a <= b
           ofDay == {d \in docs : d.timestamp = day}
       IN << [ date |-> day,
               scans |-> Cardinality(ofDay),
               issues |-> SumOf(ofDay, "issues"),
               avgScoreTenths |-> RoundedTenths(SumOf(ofDay, "score"),
                                                Cardinality(ofDay)) ] >>
            \o ActivityRows(docs, days \ {day})

ActivityBody(store, userId, t, days) ==
  LET docs == MatchStage(store, userId, t, days)
  IN ActivityRows(docs, {d.timestamp : d \in docs})

GetActivity(header, query) ==
  \/ GateRejects("GET /activity", header)
  \/ /\ GatePasses(header)
     /\ resp' = Resp("GET /activity", header, ReqUser(header), query, 200,
                     [rows |-> ActivityBody(scans, ReqUser(header), now, query.days)],
                     NotCalled)
     /\ UNCHANGED <<scans, created>>
     /\ AuthFrame

(* ------------------------------ DELETE /scan/:id (index.js) ------------ *)
\* variant: the filter forgets the owner
DeleteFilterAnyOwner(store, id, userId) ==
  {d \in store : id.hex24 /\ d._id = id.value}

\* Scan.findOneAndDelete({ _id: req.params.id, userId: req.user.id })
DeleteFilter(store, id, userId) ==
  {d \in store : id.hex24 /\ d._id = id.value /\ d.userId = userId}

\* variant: the record is kept and marked
MarkScansDeleted(store, found) ==
  (store \ found) \cup {[d EXCEPT !.status = "deleted"] : d \in found}

\* findOneAndDelete removes the document it found
RemoveScans(store, found) == store \ found

DeleteScan(header, id) ==
  \/ GateRejects("DELETE /scan/:id", header)
  \/ /\ GatePasses(header)
     /\ LET user == ReqUser(header)
            found == DeleteFilter(scans, id, user)
        IN IF ~id.hex24  \* the query's cast of _id throws
           THEN /\ resp' = Resp("DELETE /scan/:id", header, user, [id |-> id], 500,
                                [error |-> "Failed to delete scan."], NotCalled)
                /\ UNCHANGED scans
           ELSE IF found = {}
           THEN /\ resp' = Resp("DELETE /scan/:id", header, user, [id |-> id], 404,
                                [error |-> "Scan not found"], NotCalled)
                /\ UNCHANGED scans
           ELSE /\ scans' = RemoveScans(scans, found)
                /\ resp' = Resp("DELETE /scan/:id", header, user, [id |-> id], 200,
                                [message |-> "Scan deleted successfully"], NotCalled)
     /\ UNCHANGED created
     /\ AuthFrame

(* ------------------------------ GET /me (routes/auth.js) -------------- *)
\* .select('-password')
SelectWithoutPassword(user) == [f \in DOMAIN user \ {"password"} |-> user[f]]

GetMe(header) ==
  \/ GateRejects("GET /me", header)
  \/ /\ GatePasses(header)
     /\ LET user == ReqUser(header)
            found == FindUserById(users, user)
        IN resp' =
             IF found = {}
             THEN Resp("GET /me", header, user, <<>>, 404,
                       [error |-> "User not found"], NotCalled)
             ELSE Resp("GET /me", header, user, <<>>, 200,
                       SelectWithoutPassword(CHOOSE u \in found : TRUE), NotCalled)
     /\ UNCHANGED <<scans, created>>
     /\ AuthFrame

(* ------------------------------ startup of index.js ------------------- *)
\* let transporter = null; if (SMTP_USER && SMTP_PASS) transporter =
\* nodemailer.createTransporter(emailConfig).  nodemailer exports
\* createTransport and no createTransporter: with the credentials set, the
\* call throws while index.js is loaded, and the process ends before
\* app.listen
NullTransporter == [made |-> FALSE]

LoadIndexJs(credentials) ==
  IF credentials
  THEN [listening |-> FALSE, transporter |-> NullTransporter]
  ELSE [listening |-> TRUE, transporter |-> NullTransporter]

Listening == LoadIndexJs(smtp).listening

Transporter == LoadIndexJs(smtp).transporter

(* ------------------------------ POST /email-scan-results --------------- *)
\* req.body: the scanId, if one is given (url, score and totalIssues are
\* copied into the text of the mail and decide nothing)
EmailBodies ==
  {[given |-> TRUE, scanId |-> id] : id \in IdParams}
    \cup {[given |-> FALSE, scanId |-> MalformedId]}

NoMail == [sent |-> FALSE]

\* the answer of the route, with the collections the handler read and the
\* mail it handed to transporter.sendMail
EmailResp(header, user, body, status, json, read, mail) ==
  Resp("POST /email-scan-results", header, user, body, status, json, NotCalled)
    @@ [read |-> read, mail |-> mail]

\* the handler once it holds a transporter
EmailRun(header, body, sendOk) ==
  LET userId == ReqUser(header)
      found == FindUserById(users, userId)
      user == CHOOSE u \in found : TRUE
      scanFound == IF body.given THEN FindScanOwned(scans, body.scanId, userId) ELSE {}
      details == (CHOOSE d \in scanFound : TRUE).issueDetails
      mail == [ sent |-> TRUE,
                to |-> user.email,
                scan |-> IF scanFound = {} THEN 0
                         ELSE (CHOOSE d \in scanFound : TRUE)._id,
                breakdown |-> IF scanFound = {} THEN <<>>
                              ELSE [ error |-> CountSeverity(details, "error"),
                                     warning |-> CountSeverity(details, "warning"),
                                     notice |-> CountSeverity(details, "notice") ],
                issues |-> IF scanFound = {} THEN <<>>
                           ELSE SubSeq(details, 1, Min(5, Len(details))) ]
  IN
  IF found = {} \/ user.email = <<>>
  THEN EmailResp(header, userId, body, 400, [error |-> "User email not found"],
                 {"users"}, NoMail)
  ELSE IF body.given /\ ~body.scanId.hex24  \* the query's cast of _id throws
  THEN EmailResp(header, userId, body, 500,
                 [error |-> "Failed to send email", details |-> "Email failed"],
                 {"users", "scans"}, NoMail)
  ELSE IF ~sendOk
  THEN EmailResp(header, userId, body, 500,
                 [error |-> "Failed to send email", details |-> "Email failed"],
                 IF body.given THEN {"users", "scans"} ELSE {"users"}, mail)
  ELSE EmailResp(header, userId, body, 200,
                 [ message |-> "Scan results emailed successfully",
                   emailSent |-> TRUE, sentTo |-> user.email ],
                 IF body.given THEN {"users", "scans"} ELSE {"users"}, mail)

EmailScanResults(header, body) ==
  \/ GateRejects("POST /email-scan-results", header)
  \/ /\ GatePasses(header)
     /\ IF ~Transporter.made
        THEN resp' = EmailResp(header, ReqUser(header), body, 500,
                       [error |-> "Email service not configured. Please contact administrator."],
                       {}, NoMail)
        ELSE \E sendOk \in BOOLEAN : resp' = EmailRun(header, body, sendOk)
     /\ UNCHANGED <<scans, created>>
     /\ AuthFrame

(* ------------------------------ no process ----------------------------- *)
ProtectedRoutes ==
  { "POST /scan", "router POST /", "GET /scan/:id", "router GET /:id",
    "GET /scans", "router GET /", "GET /stats", "GET /activity",
    "DELETE /scan/:id", "GET /me", "POST /email-scan-results" }

\* a request sent when the process ended at startup: nothing listens, no
\* response comes (status 0)
ConnectionRefused(route, header) ==
  /\ ~Listening
  /\ resp' = Resp(route, header, 0, <<>>, 0, <<>>, NotCalled)
  /\ UNCHANGED <<users, signups, registered, scans, created, now, calc, smtp>>

(* ------------------------------ the clock ------------------------------ *)
Tick ==
  /\ now < MaxTime
  /\ now' = now + 1
  /\ UNCHANGED <<users, signups, registered, scans, created, resp, calc, smtp>>

(* ------------------------------ scan service --------------------------- *)
\* two users have signed up; the process is started with or without the
\* SMTP credentials in its environment
Init ==
  /\ users = { NewUser(1, Body(bob, <<"N">>, bx, <<"p">>), BcryptHash(<<"p">>)),
               NewUser(2, Body(amy, <<"N">>, ax, <<"q">>), BcryptHash(<<"q">>)) }
  /\ signups = EmptyBag
  /\ registered = { [id |-> 1, body |-> Body(bob, <<"N">>, bx, <<"p">>)],
                    [id |-> 2, body |-> Body(amy, <<"N">>, ax, <<"q">>)] }
  /\ scans = {}
  /\ created = 0
  /\ now = 0
  /\ resp = NoResp
  /\ calc = <<>>
  /\ smtp \in BOOLEAN

\* a request rejected by the gate is drawn once, whatever its parameters
Requests(params) ==
  {<<header, param>> : header \in {h \in Headers(users, now) : GatePasses(h)},
                       param \in params}
    \cup {<<header, CHOOSE param \in params : TRUE>> :
             header \in {h \in Headers(users, now) : ~GatePasses(h)}}

\* the routes answer while the process listens
Next ==
  \/ Listening /\ \E r \in Requests(Urls) : RouterPostScan(r[1], r[2])
  \/ Listening /\ \E r \in Requests(Urls) : PostScan(r[1], r[2])
  \/ Listening /\ \E r \in Requests(IdParams) : GetScanById(r[1], r[2])
  \/ Listening /\ \E r \in Requests(IdParams) : RouterGetScanById(r[1], r[2])
  \/ Listening /\ \E r \in Requests(ListQueries) : GetScans(r[1], r[2])
  \/ Listening /\ \E r \in Requests(RouterListQueries) : RouterGetScans(r[1], r[2])
  \/ Listening /\ \E r \in Requests(StatsQueries) : GetStats(r[1], r[2])
  \/ Listening /\ \E r \in Requests(StatsQueries) : GetActivity(r[1], r[2])
  \/ Listening /\ \E r \in Requests(IdParams) : DeleteScan(r[1], r[2])
  \/ Listening /\ \E header \in Headers(users, now) : GetMe(header)
  \/ Listening /\ \E r \in Requests(EmailBodies) : EmailScanResults(r[1], r[2])
  \/ \E route \in ProtectedRoutes, header \in Headers(users, now) :
       ConnectionRefused(route, header)
  \/ Tick

Spec == Init /\ [][Next]_vars

(* ------------------------------ the two scorings ----------------------- *)
\* calc: the severity counts of two scanner results, a and b, and the scores
\* the two POST handlers compute for each
Counts(e, w, n) == [error |-> e, warning |-> w, notice |-> n]

Scored(a, b) ==
  [ a |-> a, b |-> b,
    app |-> <<Score(a.error, a.warning, a.notice), Score(b.error, b.warning, b.notice)>>,
    router |-> <<RouterScore(a.error, a.warning, a.notice),
                 RouterScore(b.error, b.warning, b.notice)>> ]

CountBound(sev) == IF sev = "error" THEN MaxErrors ELSE MaxMinor

\* the scanner reports one more issue of a severity in result a or b
ScoreOneMore(which, sev) ==
  /\ calc[which][sev] < CountBound(sev)
  /\ calc' = IF which = "a"
             THEN Scored([calc.a EXCEPT ![sev] = @ + 1], calc.b)
             ELSE Scored(calc.a, [calc.b EXCEPT ![sev] = @ + 1])
  /\ UNCHANGED <<users, signups, registered, scans, created, now, resp, smtp>>

InitScore ==
  /\ users = {}
  /\ signups = EmptyBag
  /\ registered = {}
  /\ scans = {}
  /\ created = 0
  /\ now = 0
  /\ resp = NoResp
  /\ calc = Scored(Counts(0, 0, 0), Counts(0, 0, 0))
  /\ smtp = FALSE

NextScore == \E which \in {"a", "b"}, sev \in Severities : ScoreOneMore(which, sev)

SpecScore == InitScore /\ [][NextScore]_vars

(* ====================== the claims, settled against the model ========== *)
\* the fields of a Scan record as a response can carry them
ScanFields ==
  {"_id", "id", "userId", "url", "issues", "issueDetails", "score", "status",
   "timestamp", "data", "scans"}

GetRoutes == {"GET /scan/:id", "router GET /:id"}

CreateRoutes == {"POST /scan", "router POST /"}

ListRoutes == {"GET /scans", "router GET /"}

\* C1 (as claimed): GetScan with a well-formed id of an existing scan, by an
\* authenticated caller who does not own it, answers 403 and its body
\* carries no field of the record.  The router's GET /:id does; index.js's
\* GET /scan/:id answers 404.
C1_NonOwnerGetForbidden ==
  ( /\ resp.route \in GetRoutes
    /\ resp.user # 0
    /\ resp.params.id.hex24
    /\ \E d \in scans : d._id = resp.params.id.value /\ d.userId # resp.user )
  => ( /\ resp.status = 403
       /\ DOMAIN resp.body \cap ScanFields = {} )

\* C2 (as claimed): when the scanner call of a CreateScan request fails, the
\* request persists a record owned by the caller with status failed, issue
\* count 0, no issues and score 0, and answers 408 or 500.  The router's
\* POST / persists nothing and answers 400 to an unresolved host.
C2_FailedScanPersisted ==
  [][ ( /\ now' = now
        /\ resp'.route \in CreateRoutes
        /\ resp'.scanner # NotCalled
        /\ ~resp'.scanner.ok )
      => ( /\ \E d \in scans' \ scans :
                /\ d.userId = resp'.user
                /\ d.status = "failed"
                /\ d.issues = 0
                /\ d.issueDetails = <<>>
                /\ d.score = 0
           /\ resp'.status \in {408, 500} ) ]_vars

ClaimedScore(e, w, n) ==
  LET halves == 200 - Min(190, 10 * e + 5 * w + 2 * n)
      rounded == IF halves % 2 = 0 THEN halves \div 2 ELSE (halves \div 2) + 1
  IN Max(0, rounded)

\* C4 (as claimed): the score stored on every completed Scan record is
\* max(0, round(100 - min(95, (10e + 5w + 2n) * 0.5))) for the e errors,
\* w warnings and n notices of its issue list.  The records of index.js's
\* POST /scan have it; those of the router's POST / have max(0, 100 - 10e -
\* 5w - 2n).
C4_StoredScoreFormula ==
  \A d \in scans :
    d.status = "completed"
      => d.score = ClaimedScore(CountSeverity(d.issueDetails, "error"),
                                CountSeverity(d.issueDetails, "warning"),
                                CountSeverity(d.issueDetails, "notice"))

Weighted(c) == 10 * c.error + 5 * c.warning + 2 * c.notice

\* C5: for all severity counts the score either handler computes is within
\* 0..100, is the same for the same counts, and is not greater for a
\* greater weighted issue count 10e + 5w + 2n.
C5_ScoreRangeAndMonotone ==
  \A impl \in {"app", "router"} :
    /\ calc[impl][1] \in 0..100
    /\ calc[impl][2] \in 0..100
    /\ (calc.a = calc.b => calc[impl][1] = calc[impl][2])
    /\ (Weighted(calc.a) <= Weighted(calc.b) => calc[impl][1] >= calc[impl][2])

\* C5 witness: two results of different weight, the heavier one past the
\* point where both scorings stop decreasing
C5_ClampedScoresCompared ==
  /\ calc.a = Counts(1, 1, 1)
  /\ calc.b = Counts(MaxErrors, 0, 0)
  /\ calc.app = <<92, 5>>
  /\ calc.router = <<83, 0>>

\* the signup that the step answers: the request leaving the bag of requests
\* in flight
Answered(r) == BagIn(r, signups) /\ signups' = Finish(r)

\* the users that were stored when a request saw `seen` of them
RegisteredBy(seen) == {u \in users : u._id <= seen}

\* a username or an email equal, letter case aside, to that of one of `store`
SameUsernameButCase(body, store) ==
  \E u \in store : Lower(body.username) = Lower(u.username)

SameEmailButCase(body, store) ==
  \E u \in store : Lower(body.email) = Lower(u.email)

AllPresent(body) ==
  body.username # <<>> /\ body.name # <<>> /\ body.email # <<>>
    /\ body.password # <<>>

\* C6: a signup whose username is, letter case aside, that of a user
\* registered when the request arrived, or whose email is that of one, is
\* answered 400 with "Username already exists" or "Email already exists"
\* and stores no user.  (A payload lacking a field is answered 400 by the
\* presence test before any lookup, and stores no user either.)
C6_DuplicateButCaseRejected ==
  [][ /\ \A r \in BagToSet(signups) :
           ( /\ Answered(r)
             /\ \/ SameUsernameButCase(r.body, RegisteredBy(r.seen))
                \/ SameEmailButCase(r.body, RegisteredBy(r.seen)) )
           => /\ resp' = SignupResp(r.body, 400, resp'.error)
              /\ resp'.error \in {"Username already exists", "Email already exists"}
              /\ SameUsernameButCase(r.body, RegisteredBy(r.seen))
                   => resp'.error = "Username already exists"
              /\ users' = users
              /\ registered' = registered
      /\ ( /\ signups' = signups
           /\ resp'.route = "signup"
           /\ \/ SameUsernameButCase(resp'.body, users)
              \/ SameEmailButCase(resp'.body, users) )
         => /\ ~AllPresent(resp'.body)
            /\ resp'.status = 400
            /\ users' = users
            /\ registered' = registered ]_vars

\* C6 witness: "Bob" was refused as a duplicate of the stored "bob", and
\* "B@X" as a duplicate of the stored "b@x", by a request that came after
\* that user was registered
C6_CaseVariantRefused ==
  /\ resp.route = "signup"
  /\ resp.status = 400
  /\ \/ /\ resp.error = "Username already exists"
        /\ resp.body.username = Bob
        /\ \E u \in users : u.username = bob /\ u.email # Lower(resp.body.email)
     \/ /\ resp.error = "Email already exists"
        /\ resp.body.email = BX
        /\ \E u \in users : u.email = bx /\ u.username # Lower(resp.body.username)
  /\ \A u \in users : u.username # resp.body.username /\ u.email # resp.body.email
  /\ Cardinality(users) = 1

\* what the User schema asks of a payload, in the payload's own terms: a
\* username of 3 to 20 characters once trimmed, a name and an email that are
\* not blank
SchemaAccepts(body) ==
  /\ Len(Trim(body.username)) >= 3
  /\ Len(Trim(body.username)) <= 20
  /\ Trim(body.name) # <<>>
  /\ Trim(body.email) # <<>>

NotRegistered(body, store) ==
  \A u \in store : /\ u.username # Lower(Trim(body.username))
                   /\ u.email # Lower(Trim(body.email))

\* a login of a registered user with the username and password of the signup
LoginAnswered ==
  resp' # resp /\ resp'.route = "login"

LoginOfRegistered ==
  \A reg \in registered :
    ( /\ LoginAnswered
      /\ resp'.body.username = reg.body.username
      /\ resp'.body.password = reg.body.password )
    => /\ resp'.status = 200
       /\ resp'.token.kind = "jwt"
       /\ resp'.token.sig = "secret"
       /\ resp'.token.userId = reg.id
       /\ resp'.token.exp > now

\* C7 (as claimed): a signup with all four fields present, whose username
\* and email are those of no stored user, is answered 201, and a later login
\* with its username and password is answered 200 with a token carrying the
\* id of the user it stored.  A username of two characters is answered 500.
C7_PresentFieldsSuffice ==
  [][ /\ \A r \in BagToSet(signups) :
           ( /\ Answered(r)
             /\ AllPresent(r.body)
             /\ NotRegistered(r.body, users) )
           => /\ resp' = SignupResp(r.body, 201, resp'.error)
              /\ \E u \in users' \ users :
                   [id |-> u._id, body |-> r.body] \in registered'
      /\ LoginOfRegistered ]_vars

\* C7 (amended): a signup with all four fields present, a username of 3 to
\* 20 characters once trimmed, a name and an email that are not blank, and
\* whose folded username and email are those of no user stored when its
\* record is saved, is answered 201 and stores one user with that folded
\* username, email and a hash of the password; a later login with its
\* username and password is answered 200 with a signed, unexpired token
\* carrying the id of that user.
C7_ValidSignupThenLogin ==
  [][ /\ \A r \in BagToSet(signups) :
           ( /\ Answered(r)
             /\ AllPresent(r.body)
             /\ SchemaAccepts(r.body)
             /\ NotRegistered(r.body, users) )
           => /\ resp' = SignupResp(r.body, 201, resp'.error)
              /\ \E u \in users' :
                   /\ users' \ users = {u}
                   /\ u.username = Lower(Trim(r.body.username))
                   /\ u.email = Lower(Trim(r.body.email))
                   /\ u.password.of = r.body.password
                   /\ registered' = registered \cup {[id |-> u._id, body |-> r.body]}
      /\ LoginOfRegistered ]_vars

\* C7 witness: the second user to register, signed up as "Bob", has logged
\* in as "Bob" and holds a token carrying id 2
C7_SecondUserLoggedIn ==
  /\ resp.route = "login"
  /\ resp.status = 200
  /\ resp.body.username = Bob
  /\ resp.token.userId = 2
  /\ \E reg \in registered :
       /\ reg.id = 2
       /\ reg.body.username = Bob
       /\ reg.body.password = resp.body.password
  /\ \E u \in users : u._id = 2 /\ u.username = bob

\* a token as jwt.verify accepts it at time t: signed with the secret and
\* not yet expired
Verified(token, t) ==
  token.kind = "jwt" /\ token.sig = "secret" /\ token.exp > t

NoTokenSent(header) == ~header.present \/ header.token.kind = "none"

StoresUntouched == users' = users /\ scans' = scans /\ created' = created

GateBodies == {[error |-> "Access token required"], [error |-> "Invalid token"]}

\* C8: a request that reaches a protected route without a token is answered 401, and
\* one whose token is malformed, forged or expired is answered 403, in both
\* cases by the gate: the handler does not run, the scanner is not called,
\* no store changes.  With a verified token the handler runs with the
\* token's user id as req.user.id.  No store changes, no scanner call and
\* no req.user exist without a verified token.
C8_GateBeforeHandler ==
  [][ (now' = now /\ Listening) =>
      LET header == resp'.header
          token == header.token
          refusedWith(status, body) ==
            /\ resp'.status = status
            /\ resp'.body = body
            /\ resp'.user = 0
            /\ resp'.params = <<>>
            /\ resp'.scanner = NotCalled
            /\ StoresUntouched
      IN /\ NoTokenSent(header)
              => refusedWith(401, [error |-> "Access token required"])
         /\ (~NoTokenSent(header) /\ ~Verified(token, now))
              => refusedWith(403, [error |-> "Invalid token"])
         /\ (~NoTokenSent(header) /\ Verified(token, now))
              => /\ resp'.user = token.userId
                 /\ resp'.body \notin GateBodies
         /\ (~StoresUntouched \/ resp'.scanner # NotCalled \/ resp'.user # 0)
              => (~NoTokenSent(header) /\ Verified(token, now)) ]_vars

\* C8 witness: a token that was signed for the owner of a stored scan and
\* has expired was refused with 403, the scan still stored
C8_ExpiredTokenRefused ==
  /\ resp.route # "none"
  /\ resp.status = 403
  /\ resp.user = 0
  /\ resp.header.token.sig = "secret"
  /\ resp.header.token.exp <= now
  /\ \E d \in scans : d.userId = resp.header.token.userId

\* C9: in every answer of a list route, for every caller, page, page size
\* and lookback window, no listed scan carries its issue details, and every
\* listed scan is a stored scan of the caller.
C9_ListHidesIssueDetails ==
  (resp.route \in ListRoutes /\ resp.status = 200)
  => \A i \in DOMAIN resp.body.scans :
       LET item == resp.body.scans[i] IN
       /\ "issueDetails" \notin DOMAIN item
       /\ item.userId = resp.user
       /\ \E d \in scans : /\ d._id = item._id
                           /\ d.userId = resp.user
                           /\ \A f \in DOMAIN item : item[f] = d[f]

\* C9 witness: a list names a scan of the caller that has issues, while
\* another user's scan is stored too
C9_ListedScanHasIssues ==
  /\ resp.route \in ListRoutes
  /\ resp.status = 200
  /\ Len(resp.body.scans) = 1
  /\ \E d \in scans : /\ d._id = resp.body.scans[1]._id
                      /\ d.issues = 2
                      /\ d.issueDetails # <<>>
  /\ \E d \in scans : d.userId # resp.user

\* a url that is missing or is no well-formed absolute URL
UrlMissing(url) == url.type = "undefined" \/ (url.type = "string" /\ url = UrlEmpty)

NotAbsoluteUrl(url) == url.type # "string" \/ url.scheme = "" \/ url.host = ""

C11_IssueCountIsListLength ==
  \A d \in scans : d.issues = Len(d.issueDetails)

\* C11 witness: a completed scan with two issues written by the router's
\* POST / and a failed scan with none are stored together
C11_CompletedAndFailedStored ==
  /\ \E d \in scans : d.status = "completed" /\ d.issues = 2 /\ d.score = 88
  /\ \E d \in scans : d.status = "failed" /\ d.issues = 0

\* C12 (as claimed): every issue of every stored Scan has a severity among
\* error, warning and notice, whatever type the scanner reported.  index.js
\* replaces a missing type by warning and stores any other type as it came;
\* its schema has no enum to refuse it.
C12_SeverityInEnumeration ==
  \A d \in scans :
    \A i \in DOMAIN d.issueDetails : d.issueDetails[i].severity \in Severities

\* C13 (as claimed): GetScan by an authenticated caller answers 400 when the
\* id is not well formed and 404 when it is well formed and no scan has it,
\* whoever owns what; it answers 200 only for a scan of the caller, with the
\* scan's issue list.  The router's GET /:id does; index.js's GET /scan/:id
\* answers 500 to an id that is not well formed.
C13_GetScanValidatesThenLooksUp ==
  (resp.route \in GetRoutes /\ resp.user # 0)
  => LET id == resp.params.id IN
     /\ ~id.hex24 => resp.status = 400
     /\ (id.hex24 /\ ~\E d \in scans : d._id = id.value) => resp.status = 404
     /\ resp.status = 200
          => \E d \in scans : /\ d._id = id.value
                              /\ d.userId = resp.user
                              /\ resp.body.issueDetails = d.issueDetails
                              /\ resp.body.score = d.score

\* the scans a report of `user` on `body` may draw on: those with the given
\* id that `user` owns
ReportableScans(user, body) ==
  {d \in scans : /\ body.given
                 /\ body.scanId.hex24
                 /\ d._id = body.scanId.value
                 /\ d.userId = user}

\* C14 (as claimed): a SendReport request with a verified token, made to a
\* service without a mail transport (no SMTP credentials), is answered 500
\* "Email service not configured" with no user or scan read and no mail
\* handed over; made to a service with a transport, it is answered 400 when
\* the caller has no stored email, and otherwise is answered by the handler
\* with a mail whose severity counts and first five issues are those of a
\* scan of the caller with the given id.  With the credentials set, index.js
\* throws while it is loaded: the service with a transport answers nothing.
C14_SendReportAsSpecified ==
  [][ ( /\ now' = now
        /\ resp'.route = "POST /email-scan-results"
        /\ ~NoTokenSent(resp'.header)
        /\ Verified(resp'.header.token, now) )
      => LET caller == resp'.header.token.userId
             stored == {u \in users : u._id = caller}
         IN IF ~smtp
            THEN /\ resp'.status = 500
                 /\ resp'.body =
                      [error |-> "Email service not configured. Please contact administrator."]
                 /\ resp'.read = {}
                 /\ resp'.mail = NoMail
            ELSE IF \A u \in stored : u.email = <<>>
            THEN resp'.status = 400
            ELSE /\ resp'.status \in {200, 500}
                 /\ resp'.mail.sent /\ resp'.mail.scan # 0
                      => \E d \in ReportableScans(caller, resp'.params) :
                           /\ resp'.mail.breakdown.error
                                = CountSeverity(d.issueDetails, "error")
                           /\ resp'.mail.breakdown.warning
                                = CountSeverity(d.issueDetails, "warning")
                           /\ resp'.mail.breakdown.notice
                                = CountSeverity(d.issueDetails, "notice")
                           /\ Len(resp'.mail.issues) <= 5
                           /\ \A i \in DOMAIN resp'.mail.issues :
                                resp'.mail.issues[i] = d.issueDetails[i] ]_vars

\* C15: whatever request is served, a stored Scan stays as it was created,
\* field for field, until a DeleteScan of its owner removes it; a new record
\* takes an id no stored record has; every stored record has status
\* completed or failed.
C15_ScanNeverModified ==
  [][ /\ \A d \in scans :
           \/ d \in scans'
           \/ /\ resp'.route = "DELETE /scan/:id"
              /\ resp'.status = 200
              /\ resp'.user = d.userId
              /\ resp'.params.id.value = d._id
              /\ \A e \in scans' : e._id # d._id
      /\ \A e \in scans' : e \in scans \/ \A d \in scans : d._id # e._id
      /\ \A e \in scans' : e.status \in {"completed", "failed"} ]_vars

\* C15 witness: a day after it was stored, a failed scan of one user is
\* still stored while the other user has just deleted a scan
C15_OldScanSurvivesOthersDelete ==
  /\ resp.route = "DELETE /scan/:id"
  /\ resp.status = 200
  /\ now = 1
  /\ \E d \in scans : /\ d.userId # resp.user
                      /\ d.status = "failed"
                      /\ d.timestamp = 0
                      /\ d._id # resp.params.id.value

\* C16: however the lookups and saves of concurrent signups interleave, no
\* two stored users have the same username or the same email, letter case
\* aside.
C16_NoTwoUsersAlike ==
  \A u \in users : \A v \in users :
    u # v => /\ Lower(u.username) # Lower(v.username)
             /\ Lower(u.email) # Lower(v.email)
             /\ u._id # v._id

\* C16 witness: the signup of "Bob" passed both lookups before "bob" was
\* stored, and its save was refused: one user is stored, "Bob" was answered
\* 500 and not "already exists"
C16_RacingSignupRefused ==
  /\ resp.route = "signup"
  /\ resp.status = 500
  /\ resp.body.username = Bob
  /\ Cardinality(users) = 1
  /\ \E u \in users : u.username = bob /\ u.email # Lower(resp.body.email)

CountEffects(effects, do) ==
  Cardinality({i \in DOMAIN effects : effects[i].do = do})

ScanErrorBody ==
  [ error |-> "Failed to scan website. Please check the URL and try again.",
    details |-> "Scan failed" ]

\* C17: a CreateScan request whose url passed validation (the scanner was
\* called) sends exactly one response and stores at most one record, of the
\* caller; a 200 is sent only after the completed record was saved and names
\* it; any other answer of index.js's POST /scan is the same 500 whether the
\* failed record was saved (then it is the one new record) or its write
\* failed (then there is none); the router's POST / stores nothing unless it
\* answers 200.
C17_OneResponseOneRecord ==
  [][ ( /\ now' = now
        /\ resp'.route \in CreateRoutes
        /\ resp'.user # 0
        /\ resp'.scanner # NotCalled )
      => LET new == scans' \ scans IN
         /\ scans \subseteq scans'
         /\ Cardinality(new) <= 1
         /\ \A d \in new : d.userId = resp'.user
         /\ resp'.status = 200
              => \E d \in new :
                   /\ d.status = "completed"
                   /\ d._id = IF resp'.route = "POST /scan"
                              THEN resp'.body._id ELSE resp'.body.scanId
         /\ resp'.route = "router POST /" /\ resp'.status # 200 => new = {}
         /\ resp'.route = "POST /scan"
              => LET effects == resp'.effects IN
                 /\ CountEffects(effects, "respond") = 1
                 /\ CountEffects(effects, "save") = Cardinality(new)
                 /\ resp'.status = 200
                      => \E i \in DOMAIN effects : \E j \in DOMAIN effects :
                           /\ i < j
                           /\ effects[i] = Effect("save", "completed")
                           /\ effects[j] = Effect("respond", "200")
                 /\ resp'.status # 200
                      => /\ resp'.status = 500
                         /\ resp'.body = ScanErrorBody
                         /\ \A d \in new : d.status = "failed" ]_vars

\* C17 witness: after one scan was stored, a scan failed and so did the
\* write of its failed record: the caller was answered the 500 and the store
\* holds the one scan
C17_FailedWriteStillAnswered ==
  /\ resp.route = "POST /scan"
  /\ resp.status = 500
  /\ resp.body = ScanErrorBody
  /\ ~resp.scanner.ok
  /\ resp.scanner # NotCalled
  /\ CountEffects(resp.effects, "save") = 0
  /\ CountEffects(resp.effects, "respond") = 1
  /\ Cardinality(scans) = 1
  /\ created = 1

\* the JSON a list, stats or activity route sends for `user` and `query`
\* when it reads `store` at time t
ReadBody(route, store, user, t, query) ==
  CASE route = "GET /scans" -> ScansBody(store, user, t, query)
    [] route = "router GET /" -> RouterScansBody(store, user, query)
    [] route = "GET /stats" -> StatsBody(store, user, t, query.days)
    [] route = "GET /activity" -> [rows |-> ActivityBody(store, user, t, query.days)]

ReadRoutes == {"GET /scans", "router GET /", "GET /stats", "GET /activity"}

\* C18: the answer of ListScans, GetStats and GetActivity to a caller is the
\* answer the route gives on any store that holds the caller's scans and
\* any part of the other users' scans, none of them included: scans of
\* other users do not show in it.
C18_ReadsDependOnOwnScansOnly ==
  [][ ( /\ now' = now
        /\ resp'.route \in ReadRoutes
        /\ resp'.user # 0 )
      => LET own == {d \in scans : d.userId = resp'.user}
             others == scans \ own
         IN /\ resp'.status = 200
            /\ \A part \in SUBSET others :
                 resp'.body = ReadBody(resp'.route, own \cup part, resp'.user,
                                       now, resp'.params) ]_vars

\* C18 witness: the statistics of a caller with one scan of two issues,
\* while another user's scan with other numbers is stored in the same window
C18_StatsBesideOthersScan ==
  /\ resp.route = "GET /stats"
  /\ resp.status = 200
  /\ resp.body.totalScans = 1
  /\ resp.body.totalIssues = 2
  /\ \E d \in scans : /\ d.userId # resp.user
                      /\ d.issues # 2
                      /\ Since(d, now, resp.params.days)

====
